---- MODULE Spec2Model ----
(***************************************************************************)
(* The Veritas statement ledger: the add-statement, verify-statement and   *)
(* ask-veritas edge functions running concurrently against the             *)
(* veritas_chain table.                                                    *)
(*                                                                         *)
(* A string is a sequence of UTF-16 code units (naturals).  The JavaScript *)
(* value undefined (a field missing from the request body) is the          *)
(* one-element sequence <<-1>>, which is no string.                        *)
(*                                                                         *)
(* A handler is cut at its awaits on the store and on the completion       *)
(* service: one action runs from one such call to the next.  A store call  *)
(* either succeeds or returns an error; an insert is atomic.  The          *)
(* statement_date of a request is carried into the row unread and is left  *)
(* out.  Of an ask-veritas answer the status, the confidence, the sources  *)
(* and which of the handler's texts it carries are kept.                   *)
(*                                                                         *)
(* Spec runs add-statement, verify-statement (statement in the body) and   *)
(* ask-veritas (oracle-assisted revision) concurrently.  VerifySpec and    *)
(* AskSpec run one request of either revision of verify-statement and of   *)
(* ask-veritas over a wider choice of replies of the completion service.   *)
(***************************************************************************)
EXTENDS Integers, Sequences, FiniteSets, TLC

\* ------------------------------------------------------------- bounds
\* Request slots: the invocations of the handlers that may be in flight at once.
MaxReq == 2
\* Date.now() and the database's now() read one clock, which ticks at most
\* this many times.
MaxClock == 1
\* Rows the table may hold before further inserts are refused by the model.
MaxRows == 3

\* ------------------------------------------------------------ strings
Undefined == <<-1>>
EmptyStr == <<>>
\* "0", the previous_hash of a row written when no tail was read
GenesisHash == <<48>>

Truthy(v) == v # Undefined /\ v # EmptyStr

\* v || d
OrElse(v, d) == IF Truthy(v) THEN v ELSE d

\* one hexadecimal digit as its code unit: 0-9 then a-f
HexDigit(n) == IF n < 10 THEN 48 + n ELSE 87 + n

RECURSIVE HexOf(_)
\* Number.prototype.toString(16) of a natural below 2^16
HexOf(n) == IF n < 16 THEN <<HexDigit(n)>> ELSE HexOf(n \div 16) \o <<HexDigit(n % 16)>>

\* four hexadecimal digits, zero padded
Hex4(n) == <<HexDigit(n \div 4096), HexDigit((n \div 256) % 16),
             HexDigit((n \div 16) % 16), HexDigit(n % 16)>>

RECURSIVE DecOf(_)
\* Number.prototype.toString() of a natural
DecOf(n) == IF n < 10 THEN <<48 + n>> ELSE DecOf(n \div 10) \o <<48 + (n % 10)>>

\* ------------------------------------------------------------- hashes
\* A 32-bit integer is kept as its two 16-bit halves [hi, lo] (two's
\* complement), so that no intermediate value leaves the range of the checker.
Word == 65536

\* hash = ((hash << 5) - hash) + char; hash = hash & hash
HashStep(h, c) ==
  LET lo == h.lo * 31 + c
      hi == h.hi * 31 + (lo \div Word)
  IN  [hi |-> hi % Word, lo |-> lo % Word]

RECURSIVE HashFold(_, _, _, _)
\* the loop over data[i..j], left to right; the range is split in halves and
\* the left half is evaluated before the right one is entered, which keeps the
\* evaluation shallow
HashFold(h, data, i, j) ==
  IF i > j THEN h
  ELSE IF i = j THEN HashStep(h, data[i])
  ELSE LET mid == (i + j) \div 2
           left == HashFold(h, data, i, mid)
       IN  IF left.hi >= 0 THEN HashFold(left, data, mid + 1, j) ELSE left

\* Math.abs of the 32-bit integer h
AbsWord(h) ==
  IF h.hi < Word \div 2 THEN h
  ELSE [hi |-> (Word - 1 - h.hi + (IF h.lo = 0 THEN 1 ELSE 0)) % Word,
        lo |-> (Word - h.lo) % Word]

\* toString(16) of a natural below 2^32 given by its halves
HexWord(h) == IF h.hi = 0 THEN HexOf(h.lo) ELSE HexOf(h.hi) \o Hex4(h.lo)

simpleHash(data) == HexWord(AbsWord(HashFold([hi |-> 0, lo |-> 0], data, 1, Len(data))))

\* crypto.subtle.digest("SHA-256", ...) rendered as 64 hexadecimal digits.  The
\* digest is not computed bit for bit: it is a deterministic function of the
\* input whose value is eight 32-bit words, each printed as eight zero-padded
\* digits, which keeps what the handlers rely on (determinism, fixed width).
RECURSIVE DigestWords(_, _)
DigestWords(h, k) ==
  IF k = 0 THEN <<>>
  ELSE Hex4(h.hi) \o Hex4(h.lo) \o DigestWords(HashStep(h, k), k - 1)

sha256Hex(data) == DigestWords(HashFold([hi |-> 27145, lo |-> 58983], data, 1, Len(data)), 8)

\* -------------------------------------------------------------- state
VARIABLES
  ledger,   \* the veritas_chain table, in created_at order
  clock,    \* milliseconds read by Date.now() and by the table's now()
  apiKey,   \* whether MISTRAL_API_KEY is set in the functions' environment
  req,      \* the requests: handler, position and locals of each
  chatLog,  \* the chat_history table, in insertion order
  page      \* the chat pages, one per session: component state and handlers

\* the chat log and the pages that write it
chat == <<chatLog, page>>

vars == <<ledger, clock, apiKey, req, chatLog, page>>

Req == 1..MaxReq

\* A request body: one that req.json() rejects (json is FALSE), or the decoded
\* object with its statement, speaker and sourceUrl.
Body(statement, speaker, sourceUrl) ==
  [json |-> TRUE, statement |-> statement, speaker |-> speaker, sourceUrl |-> sourceUrl]

NotJson == [json |-> FALSE, statement |-> Undefined, speaker |-> Undefined,
            sourceUrl |-> Undefined]

\* "a", "b", "u"
StrA == <<97>>
StrB == <<98>>
StrU == <<117>>

Bodies ==
  {NotJson,
   Body(Undefined, Undefined, Undefined), Body(EmptyStr, StrB, Undefined),
   Body(StrA, Undefined, Undefined), Body(StrA, EmptyStr, Undefined),
   Body(StrA, StrB, Undefined), Body(StrA, StrB, StrU)}

\* the value undefined where a list is expected
NoList == <<Undefined>>

\* A verification: status and confidence ("" when absent), the lists keyFacts
\* and issues, the texts context, recommendation and reasoning.
NoVerification ==
  [status |-> "", confidence |-> "", keyFacts |-> NoList, issues |-> NoList,
   context |-> Undefined, recommendation |-> Undefined, reasoning |-> Undefined]

\* A reply of the completion service: its kind (see OracleFailures); the
\* content as sent when it is no JSON (absent or empty for "content"); the
\* object the content parses to, of which an absent key has status or
\* confidence "", a list NoList, a text Undefined.
ReplyOf(kind, content, object) == [kind |-> kind, content |-> content] @@ object

\* no call was answered
NoReply == ReplyOf("none", EmptyStr, NoVerification)

IdleReq ==
  [op |-> "none", pc |-> "idle", json |-> FALSE,
   statement |-> Undefined, speaker |-> Undefined, sourceUrl |-> Undefined,
   query |-> Undefined, statementId |-> 0,
   previousHash |-> EmptyStr, statementHash |-> EmptyStr, blockHash |-> EmptyStr,
   verification |-> NoVerification,
   status |-> 0, confidence |-> "",
   \* of an ask-veritas response: which answer it carries (see Answer) and the
   \* entries it cites; candidates are the entries the handler goes on with
   answer |-> "", sources |-> {}, candidates |-> {},
   \* data[0].id of the insert's result (0: none)
   rowId |-> 0,
   \* the history of the request, which the handlers never read: the store
   \* calls it made (reads, writes), whether one of them failed, the number of
   \* rows the table held at its tail read and the row that read returned, the
   \* reply of the completion service to its call
   reads |-> 0, writes |-> 0, storeFailed |-> FALSE, tailSeen |-> -1, lastRead |-> 0,
   \* the calls of the completion service it made
   calls |-> 0,
   oracle |-> NoReply,
   \* of an ask-veritas request: the retrieval calls it made and the entries
   \* they returned, the kinds of the replies to its selection call and to its
   \* answer call
   retrievals |-> 0, yielded |-> {}, selected |-> "none", synthesized |-> "none"]

\* A slot takes a request when it has served none.
Free(r) == req[r].pc = "idle"

\* The response leaves and the locals of the invocation are gone; the request
\* as it was sent and what it did to the store stay on record.
Respond(q, code) ==
  [q EXCEPT !.pc = "done", !.status = code,
            !.previousHash = EmptyStr, !.statementHash = EmptyStr,
            !.blockHash = EmptyStr]

\* select('block_hash').order('created_at', desc).limit(1).single(): data is the
\* newest row, or null (0 here) when the table is empty or the read fails.
lastBlock(ok) == IF ok /\ Len(ledger) > 0 THEN Len(ledger) ELSE 0

\* lastBlock?.block_hash || '0'
previousHashOf(last) ==
  IF last = 0 THEN GenesisHash ELSE OrElse(ledger[last].block_hash, GenesisHash)

\* insert(row): the table adds id (the position), created_at and updated_at.
InsertRow(row) ==
  Append(ledger, row @@ [id |-> Len(ledger) + 1, created_at |-> clock])

\* ------------------------------------------------------ add-statement
\* the validation with the speaker forgotten
AddInvalidStatementOnly(body) == ~Truthy(body.statement)

\* !statement || !speaker
AddInvalid(body) == ~Truthy(body.statement) \/ ~Truthy(body.speaker)

\* req.json() and the validation, up to the first store call
AddReceive(r, body) ==
  /\ Free(r)
  /\ LET q == [IdleReq EXCEPT !.op = "add", !.json = body.json, !.statement = body.statement,
                             !.speaker = body.speaker, !.sourceUrl = body.sourceUrl]
     IN  req' = [req EXCEPT ![r] =
                   IF ~body.json THEN Respond(q, 500)
                   ELSE IF AddInvalid(body) THEN Respond(q, 400)
                   ELSE [q EXCEPT !.pc = "tail"]]
  /\ UNCHANGED <<ledger, clock, apiKey, chat>>

\* statement + speaker + (sourceUrl || ''): what the fingerprint is taken of
AddHashInput(q) == q.statement \o q.speaker \o OrElse(q.sourceUrl, EmptyStr)

\* the fingerprint of the statement
AddStatementHash(q) == simpleHash(AddHashInput(q))

AddBlockHash(statementHash, previousHash, now) ==
  simpleHash(statementHash \o previousHash \o DecOf(now))

\* the tail read, then the two hashes, up to the insert call
AddReadTail(r, ok) ==
  /\ req[r].op = "add" /\ req[r].pc = "tail"
  /\ LET last == lastBlock(ok)
         previousHash == previousHashOf(last)
         statementHash == AddStatementHash(req[r])
     IN  req' = [req EXCEPT ![r] =
                   [@ EXCEPT !.pc = "insert",
                             !.previousHash = previousHash,
                             !.statementHash = statementHash,
                             !.blockHash = AddBlockHash(statementHash, previousHash, clock),
                             !.reads = @ + 1,
                             !.storeFailed = ~ok,
                             !.tailSeen = Len(ledger),
                             !.lastRead = last]]
  /\ UNCHANGED <<ledger, clock, apiKey, chat>>

AddRow(r) ==
  LET q == req[r] IN
  [statement |-> q.statement, speaker |-> q.speaker, source_url |-> q.sourceUrl,
   statement_hash |-> q.statementHash, previous_hash |-> q.previousHash,
   block_hash |-> q.blockHash,
   verification_status |-> "", verification_confidence |-> "",
   \* the history of the row: the handler and the request that wrote it, and
   \* what that request saw at its tail read
   writer |-> "add", by |-> r, tailSeen |-> q.tailSeen, lastRead |-> q.lastRead]

\* The insert is sent whatever the table holds by now.
AddMayInsert(r) == req[r].op = "add" /\ req[r].pc = "insert"

\* the insert refused when the tail is no longer the one that was read
AddInsertCompareAndSwap(r, ok) ==
  /\ AddMayInsert(r)
  /\ Len(ledger) < MaxRows
  /\ IF ok /\ lastBlock(TRUE) = req[r].lastRead
       THEN /\ ledger' = InsertRow(AddRow(r))
            /\ req' = [req EXCEPT ![r] =
                         Respond([@ EXCEPT !.writes = @ + 1,
                                           !.rowId = Len(ledger) + 1], 200)]
       ELSE /\ ledger' = ledger
            /\ req' = [req EXCEPT ![r] =
                         Respond([@ EXCEPT !.writes = @ + 1, !.storeFailed = ~ok],
                                 IF ok THEN 409 ELSE 500)]
  /\ UNCHANGED <<clock, apiKey, chat>>

\* the insert with its error left unchecked
AddInsertIgnoresError(r, ok) ==
  /\ AddMayInsert(r)
  /\ Len(ledger) < MaxRows
  /\ IF ok
       THEN /\ ledger' = InsertRow(AddRow(r))
            /\ req' = [req EXCEPT ![r] =
                         Respond([@ EXCEPT !.writes = @ + 1,
                                           !.rowId = Len(ledger) + 1], 200)]
       ELSE /\ ledger' = ledger
            /\ req' = [req EXCEPT ![r] =
                         Respond([@ EXCEPT !.writes = @ + 1, !.storeFailed = TRUE], 200)]
  /\ UNCHANGED <<clock, apiKey, chat>>

\* the insert and the response
AddInsert(r, ok) ==
  /\ AddMayInsert(r)
  /\ Len(ledger) < MaxRows
  /\ IF ok
       THEN /\ ledger' = InsertRow(AddRow(r))
            /\ req' = [req EXCEPT ![r] =
                         Respond([@ EXCEPT !.writes = @ + 1,
                                           !.rowId = Len(ledger) + 1], 200)]
       ELSE /\ ledger' = ledger
            /\ req' = [req EXCEPT ![r] =
                         Respond([@ EXCEPT !.writes = @ + 1, !.storeFailed = TRUE], 500)]
  /\ UNCHANGED <<clock, apiKey, chat>>

\* --------------------------------------------------- verify-statement
\* What the completion service does with one call: the call throws
\* ("network"), answers with a non-success status ("status"), sends a body
\* that is no JSON ("body"), sends JSON without choices[0].message
\* ("envelope"), sends a message whose content is absent or empty ("content"),
\* or sends content: text that is no JSON ("text"), or the JSON of an object
\* ("object").
OracleFailures == {"network", "status", "body", "envelope", "content"}

\* "no": a content that is no JSON
StrNotJson == <<110, 111>>

\* "AI response parsing failed"
StrParsingFailed ==
  <<65, 73, 32, 114, 101, 115, 112, 111, 110, 115, 101, 32, 112, 97, 114, 115,
    105, 110, 103, 32, 102, 97, 105, 108, 101, 100>>

\* "Manual review required"
StrManualReview ==
  <<77, 97, 110, 117, 97, 108, 32, 114, 101, 118, 105, 101, 119, 32, 114, 101,
    113, 117, 105, 114, 101, 100>>

\* "Not provided"
StrNotProvided == <<78, 111, 116, 32, 112, 114, 111, 118, 105, 100, 101, 100>>

\* a reply with nothing but a status and a confidence in its object
Reply(kind, status, confidence) ==
  ReplyOf(kind, IF kind = "text" THEN StrNotJson ELSE EmptyStr,
          [NoVerification EXCEPT !.status = status, !.confidence = confidence])

OracleReplies ==
  {Reply(k, "", "") : k \in OracleFailures \cup {"text"}}
  \cup {Reply("object", "", ""), Reply("object", "VERIFIED", "HIGH")}

\* the degraded verification with the raw content dropped
DegradedWithoutContent(content) ==
  [status |-> "UNVERIFIED", confidence |-> "LOW", reasoning |-> StrNotProvided,
   keyFacts |-> <<>>, issues |-> <<StrParsingFailed>>,
   context |-> EmptyStr, recommendation |-> StrManualReview]

\* the catch of the parse: the degraded verification around the raw content
Degraded(content) ==
  [status |-> "UNVERIFIED", confidence |-> "LOW", reasoning |-> content,
   keyFacts |-> <<>>, issues |-> <<StrParsingFailed>>,
   context |-> EmptyStr, recommendation |-> StrManualReview]

\* the parsed object of a reply
ParsedOf(reply) ==
  [status |-> reply.status, confidence |-> reply.confidence,
   keyFacts |-> reply.keyFacts, issues |-> reply.issues, context |-> reply.context,
   recommendation |-> reply.recommendation, reasoning |-> reply.reasoning]

\* the defaults for the missing fields with context defaulting to ''
WithDefaultsEmptyContext(v) ==
  [status |-> IF v.status = "" THEN "UNVERIFIED" ELSE v.status,
   confidence |-> IF v.confidence = "" THEN "LOW" ELSE v.confidence,
   keyFacts |-> IF v.keyFacts = NoList THEN <<>> ELSE v.keyFacts,
   issues |-> IF v.issues = NoList THEN <<>> ELSE v.issues,
   context |-> OrElse(v.context, EmptyStr),
   recommendation |-> OrElse(v.recommendation, StrNotProvided),
   reasoning |-> OrElse(v.reasoning, StrNotProvided)]

\* requiredFields.filter(field => !verification[field]) and the default of
\* each missing field
WithDefaults(v) ==
  [status |-> IF v.status = "" THEN "UNVERIFIED" ELSE v.status,
   confidence |-> IF v.confidence = "" THEN "LOW" ELSE v.confidence,
   keyFacts |-> IF v.keyFacts = NoList THEN <<>> ELSE v.keyFacts,
   issues |-> IF v.issues = NoList THEN <<>> ELSE v.issues,
   context |-> OrElse(v.context, StrNotProvided),
   recommendation |-> OrElse(v.recommendation, StrNotProvided),
   reasoning |-> OrElse(v.reasoning, StrNotProvided)]

\* JSON.parse of the content, the defaults for missing fields, the fallback
verificationOf(reply) ==
  IF reply.kind = "text" THEN Degraded(reply.content) ELSE WithDefaults(ParsedOf(reply))

\* req.json(), the validation and the key check, up to the oracle call
VerifyReceive(r, body) ==
  /\ Free(r)
  /\ LET q == [IdleReq EXCEPT !.op = "verify", !.json = body.json, !.statement = body.statement,
                             !.speaker = body.speaker, !.sourceUrl = body.sourceUrl]
     IN  req' = [req EXCEPT ![r] =
                   IF ~body.json THEN Respond(q, 500)
                   ELSE IF ~Truthy(body.statement) THEN Respond(q, 400)
                   ELSE IF ~apiKey THEN Respond(q, 500)
                   ELSE [q EXCEPT !.pc = "oracle"]]
  /\ UNCHANGED <<ledger, clock, apiKey, chat>>

\* if (statement && speaker): whether the result is stored
VerifyStores(q) == Truthy(q.statement) /\ Truthy(q.speaker)

\* the statement hash with the verdict among its inputs
VerifyStatementHashOfVerdict(q) ==
  sha256Hex(q.statement \o q.speaker
            \o (IF q.verification.status = "VERIFIED" THEN <<86>> ELSE <<85>>))

VerifyStatementHash(q) == sha256Hex(q.statement \o q.speaker)

VerifyBlockHash(hashHex, previousHash, now) ==
  sha256Hex(hashHex \o previousHash \o DecOf(now))

\* the oracle call, the envelope checks and the parse, up to the tail read
VerifyOracle(r, reply) ==
  /\ req[r].op = "verify" /\ req[r].pc = "oracle"
  /\ req' = [req EXCEPT ![r] =
               IF reply.kind \in OracleFailures
                 THEN Respond([req[r] EXCEPT !.oracle = reply, !.calls = @ + 1], 502)
               ELSE LET q == [req[r] EXCEPT !.verification = verificationOf(reply),
                                            !.oracle = reply, !.calls = @ + 1]
                    IN  IF VerifyStores(q)
                          THEN [q EXCEPT !.pc = "tail",
                                         !.statementHash = VerifyStatementHash(q)]
                          ELSE Respond(q, 200)]
  /\ UNCHANGED <<ledger, clock, apiKey, chat>>

\* the tail read and the block hash, up to the insert call
VerifyReadTail(r, ok) ==
  /\ req[r].op = "verify" /\ req[r].pc = "tail"
  /\ LET last == lastBlock(ok)
         previousHash == previousHashOf(last)
     IN  req' = [req EXCEPT ![r] =
                   [@ EXCEPT !.pc = "insert",
                             !.previousHash = previousHash,
                             !.blockHash = VerifyBlockHash(req[r].statementHash, previousHash, clock),
                             !.reads = @ + 1,
                             !.storeFailed = ~ok,
                             !.tailSeen = Len(ledger),
                             !.lastRead = last]]
  /\ UNCHANGED <<ledger, clock, apiKey, chat>>

VerifyRow(r) ==
  LET q == req[r] IN
  [statement |-> q.statement, speaker |-> q.speaker, source_url |-> q.sourceUrl,
   statement_hash |-> q.statementHash, previous_hash |-> q.previousHash,
   block_hash |-> q.blockHash,
   verification_status |-> q.verification.status,
   verification_confidence |-> q.verification.confidence,
   writer |-> "verify", by |-> r, tailSeen |-> q.tailSeen, lastRead |-> q.lastRead]

\* storing the verification as an upsert on (statement, speaker): the entry of
\* the same statement is replaced
VerifyPersistUpsert(r) ==
  LET same == {i \in 1..Len(ledger) : /\ ledger[i].statement = req[r].statement
                                      /\ ledger[i].speaker = req[r].speaker}
  IN  IF same = {} THEN InsertRow(VerifyRow(r))
      ELSE LET k == CHOOSE i \in same : TRUE
           IN  [ledger EXCEPT ![k] = VerifyRow(r) @@ [id |-> k, created_at |-> clock]]

\* what storing the verification does to the table
VerifyPersist(r) == InsertRow(VerifyRow(r))

\* the insert with its failure answered by an error
VerifyInsertSurfacesError(r, ok) ==
  /\ req[r].op = "verify" /\ req[r].pc = "insert"
  /\ Len(ledger) < MaxRows
  /\ IF ok
       THEN /\ ledger' = VerifyPersist(r)
            /\ req' = [req EXCEPT ![r] = Respond([@ EXCEPT !.writes = @ + 1], 200)]
       ELSE /\ ledger' = ledger
            /\ req' = [req EXCEPT ![r] =
                         Respond([@ EXCEPT !.writes = @ + 1, !.storeFailed = TRUE,
                                           !.verification = NoVerification], 500)]
  /\ UNCHANGED <<clock, apiKey, chat>>

\* the insert, whose failure is ignored, and the response
VerifyInsert(r, ok) ==
  /\ req[r].op = "verify" /\ req[r].pc = "insert"
  /\ Len(ledger) < MaxRows
  /\ IF ok
       THEN /\ ledger' = VerifyPersist(r)
            /\ req' = [req EXCEPT ![r] = Respond([@ EXCEPT !.writes = @ + 1], 200)]
       ELSE /\ ledger' = ledger
            /\ req' = [req EXCEPT ![r] =
                         Respond([@ EXCEPT !.writes = @ + 1, !.storeFailed = TRUE], 200)]
  /\ UNCHANGED <<clock, apiKey, chat>>

\* ------------------------------- verify-statement, by statement id
\* The body of a request: the id of an entry is its position in the table; 0
\* is a body without statementId.
VerifyIdBodies == [json : {TRUE}, statementId : 0..2] \cup [json : {FALSE}, statementId : {0}]

\* req.json() and the validation, up to the read of the entry
VerifyIdReceive(r, body) ==
  /\ Free(r)
  /\ LET q == [IdleReq EXCEPT !.op = "verifyId", !.json = body.json,
                             !.statementId = body.statementId]
     IN  req' = [req EXCEPT ![r] =
                   IF ~body.json THEN Respond(q, 500)
                   ELSE IF body.statementId = 0 THEN Respond(q, 400)
                   ELSE [q EXCEPT !.pc = "row"]]
  /\ UNCHANGED <<ledger, clock, apiKey, chat>>

\* select('*').eq('id', statementId).single() and the key check, up to the
\* oracle call
VerifyIdFetch(r, ok) ==
  /\ req[r].op = "verifyId" /\ req[r].pc = "row"
  /\ LET q == [req[r] EXCEPT !.reads = @ + 1, !.storeFailed = ~ok]
         id == req[r].statementId
     IN  req' = [req EXCEPT ![r] =
                   IF ~ok \/ id > Len(ledger) THEN Respond(q, 404)
                   ELSE IF ~apiKey THEN Respond(q, 500)
                   ELSE [q EXCEPT !.pc = "oracle", !.statement = ledger[id].statement,
                                  !.speaker = ledger[id].speaker]]
  /\ UNCHANGED <<ledger, clock, apiKey, chat>>

\* the replies at which the handler throws: fetch rejects, the status is no
\* success, aiResponse.json() rejects, choices[0].message cannot be read
VerifyIdThrows == {"network", "status", "body", "envelope"}

\* the oracle call and the parse, up to the response: no default is filled in,
\* and a content that is absent or empty is parsed like any other
VerifyIdOracle(r, reply) ==
  /\ req[r].op = "verifyId" /\ req[r].pc = "oracle"
  /\ req' = [req EXCEPT ![r] =
               IF reply.kind \in VerifyIdThrows
                 THEN Respond([req[r] EXCEPT !.oracle = reply, !.calls = @ + 1], 500)
               ELSE Respond([req[r] EXCEPT
                               !.oracle = reply, !.calls = @ + 1,
                               !.verification =
                                 IF reply.kind = "object" THEN ParsedOf(reply)
                                 ELSE Degraded(reply.content)], 200)]
  /\ UNCHANGED <<ledger, clock, apiKey, chat>>

\* --------------------------------------------------------- ask-veritas
\* the body of an ask request
AskBodies == [json : {TRUE}, query : {Undefined, EmptyStr, StrA}]
             \cup [json : {FALSE}, query : {Undefined}]

\* What the completion service does with the selection call: as for
\* verify-statement, where "text" is content that is no JSON array of ids and
\* "object" is content that is one.
AskReplyKinds == OracleFailures \cup {"text", "object"}

\* req.json(), the validation and the key check, up to the first store call
AskReceive(r, body) ==
  /\ Free(r)
  /\ LET q == [IdleReq EXCEPT !.op = "ask", !.json = body.json, !.query = body.query]
     IN  req' = [req EXCEPT ![r] =
                   IF ~body.json THEN Respond(q, 500)
                   ELSE IF ~Truthy(body.query) THEN Respond(q, 400)
                   ELSE IF ~apiKey THEN Respond(q, 500)
                   ELSE [q EXCEPT !.pc = "fetch"]]
  /\ UNCHANGED <<ledger, clock, apiKey, chat>>

\* A success response.  The answer is one of the texts of the handler, named
\* here by what it says: "empty" (there are no statements yet), "none" (no
\* relevant statement was found), "count" (the number of statements found),
\* "details" (the number and the statements found), "unassisted" (statements
\* were found but the AI service gave no answer), "oracle" (the content of the
\* completion service's reply).
Answer(q, answer, sources, confidence) ==
  [Respond(q, 200) EXCEPT !.answer = answer, !.sources = sources,
                          !.confidence = confidence]

\* select('*').order('created_at', desc).limit(50), up to the selection call
AskFetchAll(r, ok) ==
  /\ req[r].op = "ask" /\ req[r].pc = "fetch"
  /\ LET q == [req[r] EXCEPT !.reads = @ + 1, !.storeFailed = @ \/ ~ok]
     IN  req' = [req EXCEPT ![r] =
                   IF ~ok THEN Respond(q, 500)
                   ELSE IF Len(ledger) = 0 THEN Answer(q, "empty", {}, "low")
                   ELSE [q EXCEPT !.pc = "select"]]
  /\ UNCHANGED <<ledger, clock, apiKey, chat>>

\* the selection call and the parse of its reply
AskSelect(r, kind) ==
  /\ req[r].op = "ask" /\ req[r].pc = "select"
  /\ LET q == [req[r] EXCEPT !.selected = kind, !.calls = @ + 1]
     IN  req' = [req EXCEPT ![r] =
                   IF kind = "body" THEN Respond(q, 500)
                   ELSE IF kind = "object" THEN [q EXCEPT !.pc = "lookup"]
                   ELSE [q EXCEPT !.pc = "search"]]
  /\ UNCHANGED <<ledger, clock, apiKey, chat>>

\* the most entries a retrieval call returns
SourceLimit == 5

\* a retrieval call without a limit
LimitNone(found) == {found}

\* limit(5): what a retrieval call may return of the entries its filter finds
Limit(found) ==
  {data \in SUBSET found :
     Cardinality(data) = IF Cardinality(found) < SourceLimit THEN Cardinality(found)
                         ELSE SourceLimit}

\* in('id', relevantIds): the entries whose id is among ids
InIds(ids) == {i \in 1..Len(ledger) : ledger[i].id \in ids}

\* A retrieval call: data is the set of entries found, or null (the empty set
\* here) when the call fails.
Retrieved(q, ok, found) ==
  LET data == IF ok THEN found ELSE {}
  IN  [q EXCEPT !.reads = @ + 1, !.storeFailed = @ \/ ~ok,
                !.retrievals = @ + 1, !.yielded = @ \cup data, !.candidates = data]

\* the answer for no candidate
NoneFound(q) == Answer(q, "none", {}, "low")

\* the lookup with an error for no candidate
AskLookupNotFound(r, ok, ids) ==
  /\ req[r].op = "ask" /\ req[r].pc = "lookup"
  /\ \E data \in Limit(InIds(ids)) :
       LET q == Retrieved(req[r], ok, data)
       IN  req' = [req EXCEPT ![r] =
                     IF q.candidates # {} THEN [q EXCEPT !.pc = "synthesize"]
                     ELSE Respond(q, 404)]
  /\ UNCHANGED <<ledger, clock, apiKey, chat>>

\* select('*').in('id', relevantIds).limit(5), where ids are the relevantIds
\* of the selection reply
AskLookup(r, ok, ids) ==
  /\ req[r].op = "ask" /\ req[r].pc = "lookup"
  /\ \E data \in Limit(InIds(ids)) :
       LET q == Retrieved(req[r], ok, data)
       IN  req' = [req EXCEPT ![r] =
                     IF q.candidates # {} THEN [q EXCEPT !.pc = "synthesize"]
                     ELSE NoneFound(q)]
  /\ UNCHANGED <<ledger, clock, apiKey, chat>>

\* the answer call made once more after a failure
AskSynthesizeRetries(r, kind) ==
  /\ req[r].op = "ask" /\ req[r].pc = "synthesize"
  /\ LET q == [req[r] EXCEPT !.synthesized = kind, !.calls = @ + 1]
     IN  req' = [req EXCEPT ![r] =
                   IF kind \in OracleFailures
                     THEN IF q.calls < 3 THEN q
                          ELSE Answer(q, "unassisted", q.candidates, "low")
                     ELSE Answer(q, "oracle", q.candidates, "high")]
  /\ UNCHANGED <<ledger, clock, apiKey, chat>>

\* the answer call over the rows found
AskSynthesize(r, kind) ==
  /\ req[r].op = "ask" /\ req[r].pc = "synthesize"
  /\ LET q == [req[r] EXCEPT !.synthesized = kind, !.calls = @ + 1]
     IN  req' = [req EXCEPT ![r] =
                   IF kind \in OracleFailures
                     THEN Answer(q, "unassisted", q.candidates, "low")
                     ELSE Answer(q, "oracle", q.candidates, "high")]
  /\ UNCHANGED <<ledger, clock, apiKey, chat>>

\* fallbackToDirectSearch: the full-text search
AskTextSearch(r, ok, found) ==
  /\ req[r].op = "ask" /\ req[r].pc = "search"
  /\ found \subseteq 1..Len(ledger)
  /\ \E data \in Limit(found) :
       LET q == Retrieved(req[r], ok, data)
       IN  req' = [req EXCEPT ![r] =
                     IF ~ok THEN [q EXCEPT !.pc = "keyword"]
                     ELSE IF q.candidates # {} THEN Answer(q, "count", q.candidates, "medium")
                     ELSE NoneFound(q)]
  /\ UNCHANGED <<ledger, clock, apiKey, chat>>

\* fallbackToDirectSearch: the word match after a failed full-text search
AskKeyword(r, ok, found) ==
  /\ req[r].op = "ask" /\ req[r].pc = "keyword"
  /\ found \subseteq 1..Len(ledger)
  /\ \E data \in Limit(found) :
       LET q == Retrieved(req[r], ok, data)
       IN  req' = [req EXCEPT ![r] =
                     IF q.candidates # {} THEN Answer(q, "count", q.candidates, "medium")
                     ELSE NoneFound(q)]
  /\ UNCHANGED <<ledger, clock, apiKey, chat>>

\* ------------------------------------- ask-veritas, full-text revision
\* req.json() and the validation, up to the full-text search
Ask2Receive(r, body) ==
  /\ Free(r)
  /\ LET q == [IdleReq EXCEPT !.op = "ask2", !.json = body.json, !.query = body.query]
     IN  req' = [req EXCEPT ![r] =
                   IF ~body.json THEN Respond(q, 500)
                   ELSE IF ~Truthy(body.query) THEN Respond(q, 400)
                   ELSE [q EXCEPT !.pc = "search"]]
  /\ UNCHANGED <<ledger, clock, apiKey, chat>>

\* the full-text search and the key check, up to the word match or the answer
\* call
Ask2TextSearch(r, ok, found) ==
  /\ req[r].op = "ask2" /\ req[r].pc = "search"
  /\ found \subseteq 1..Len(ledger)
  /\ \E data \in Limit(found) :
       LET q == Retrieved(req[r], ok, data)
       IN  req' = [req EXCEPT ![r] =
                     IF ~ok THEN [q EXCEPT !.pc = "keyword"]
                     ELSE IF q.candidates = {} THEN NoneFound(q)
                     ELSE IF ~apiKey THEN Answer(q, "details", q.candidates, "medium")
                     ELSE [q EXCEPT !.pc = "synthesize"]]
  /\ UNCHANGED <<ledger, clock, apiKey, chat>>

\* The word match after a failed full-text search.  What it finds goes to
\* fallbackStatements; relevantStatements is statements || [], which is empty
\* after a failed search, so that the handler answers as for no candidate.
Ask2Keyword(r, ok, found) ==
  /\ req[r].op = "ask2" /\ req[r].pc = "keyword"
  /\ found \subseteq 1..Len(ledger)
  /\ \E data \in Limit(found) :
       LET q == [Retrieved(req[r], ok, data) EXCEPT !.candidates = {}]
       IN  req' = [req EXCEPT ![r] = NoneFound(q)]
  /\ UNCHANGED <<ledger, clock, apiKey, chat>>

\* the replies to the answer call at which the handler throws
Ask2Throws == {"network", "status", "body", "envelope"}

\* the answer call: whatever choices[0].message.content holds is the answer
Ask2Synthesize(r, kind) ==
  /\ req[r].op = "ask2" /\ req[r].pc = "synthesize"
  /\ LET q == [req[r] EXCEPT !.synthesized = kind, !.calls = @ + 1]
     IN  req' = [req EXCEPT ![r] =
                   IF kind \in Ask2Throws THEN Respond(q, 500)
                   ELSE Answer(q, IF kind = "content" THEN "" ELSE "oracle",
                               q.candidates, "high")]
  /\ UNCHANGED <<ledger, clock, apiKey, chat>>

\* ----------------------------------------------------------- chat page
\* Sessions: each has one chat page open, whose sessionId is the session.
MaxSessions == 2
\* Submits a page accepts in a run of the model.
MaxSubmits == 2

Sessions == 1..MaxSessions

\* " ": an input that is blank
StrBlank == <<32>>

RECURSIVE Trim(_)
\* String.prototype.trim, for the white space U+0020
Trim(text) ==
  IF text = EmptyStr THEN text
  ELSE IF Head(text) = 32 THEN Trim(Tail(text))
  ELSE IF text[Len(text)] = 32 THEN Trim(SubSeq(text, 1, Len(text) - 1))
  ELSE text

\* what the user may have typed
Inputs == {EmptyStr, StrBlank, StrA}

\* The commands for which the migration creates a policy on chat_history,
\* which has row level security enabled: a command without a policy sees no
\* row, and reports no error.
ChatPolicies == {"SELECT", "INSERT"}

\* A page after its first render: the greeting, an empty input.  Of a message
\* its kind is kept: "greeting", "user", "answer" (the bot message made of the
\* function's data) or "error" (the bot message with the fixed apology).
\* runs holds the positions of the handleSubmit invocations in flight; clear is
\* the position of clearChatHistory.  The rest is history no handler reads:
\* the submits accepted, whether one was ignored, the user and bot messages
\* appended.
FirstPage ==
  [messages |-> <<"greeting">>, input |-> EmptyStr, isLoading |-> FALSE,
   isLoadingHistory |-> TRUE, runs |-> <<>>, clear |-> "idle", clearError |-> FALSE,
   accepted |-> 0, ignored |-> FALSE, userAppends |-> 0, botAppends |-> 0]

ChatStart ==
  /\ chatLog = <<>>
  /\ page = [s \in Sessions |-> FirstPage]

\* the rows of a chat log that belong to session s, and the others
RowsOfSession(log, s) == {i \in 1..Len(log) : log[i].session_id = s}

OtherSessions(log, s) ==
  LET Other(row) == row.session_id # s IN SelectSeq(log, Other)

\* loadChatHistory: the rows of the session replace the messages when there
\* are any
LoadChatHistory(s, ok) ==
  /\ page[s].isLoadingHistory
  /\ LET Mine(row) == row.session_id = s
         data == IF "SELECT" \in ChatPolicies THEN SelectSeq(chatLog, Mine) ELSE <<>>
         kinds == [i \in 1..Len(data) |-> data[i].kind]
     IN  page' = [page EXCEPT ![s] =
                    [@ EXCEPT !.isLoadingHistory = FALSE,
                              !.messages = IF ok /\ Len(data) > 0 THEN kinds ELSE @]]
  /\ UNCHANGED <<ledger, clock, apiKey, req, chatLog>>

\* onChange of the input field, which is disabled while isLoading
Type(s, text) ==
  /\ ~page[s].isLoading
  /\ page[s].input # text
  /\ page' = [page EXCEPT ![s].input = text]
  /\ UNCHANGED <<ledger, clock, apiKey, req, chatLog>>

\* saveChatMessage: the insert, whose error is logged
SaveChatMessage(s, kind, ok) ==
  IF ok /\ "INSERT" \in ChatPolicies
    THEN Append(chatLog,
                [session_id |-> s, kind |-> kind,
                 message_type |-> IF kind = "user" THEN "user" ELSE "bot"])
    ELSE chatLog

\* !input.trim() || isLoading
SubmitIgnored(s) == Trim(page[s].input) = EmptyStr \/ page[s].isLoading

\* handleSubmit up to the save of the user message
Submit(s) ==
  /\ IF SubmitIgnored(s)
       THEN page' = [page EXCEPT ![s].ignored = TRUE]
       ELSE /\ page[s].accepted < MaxSubmits
            /\ page' = [page EXCEPT ![s] =
                          [@ EXCEPT !.messages = Append(@, "user"),
                                    !.input = EmptyStr,
                                    !.isLoading = TRUE,
                                    !.runs = Append(@, "saveUser"),
                                    !.accepted = @ + 1,
                                    !.userAppends = @ + 1]]
  /\ UNCHANGED <<ledger, clock, apiKey, req, chatLog>>

\* the save of the user message, up to the call of ask-veritas
SubmitSaveUser(s, i, ok) ==
  /\ i \in DOMAIN page[s].runs /\ page[s].runs[i] = "saveUser"
  /\ chatLog' = SaveChatMessage(s, "user", ok)
  /\ page' = [page EXCEPT ![s].runs[i] = "invoke"]
  /\ UNCHANGED <<ledger, clock, apiKey, req>>

\* The call of ask-veritas returns: data (answered) or an error.  The bot
\* message is appended, up to its save.
SubmitInvoke(s, i, answered) ==
  /\ i \in DOMAIN page[s].runs /\ page[s].runs[i] = "invoke"
  /\ page' = [page EXCEPT ![s] =
                [@ EXCEPT !.messages = Append(@, IF answered THEN "answer" ELSE "error"),
                          !.botAppends = @ + 1,
                          !.runs[i] = IF answered THEN "saveAnswer" ELSE "saveError"]]
  /\ UNCHANGED <<ledger, clock, apiKey, req, chatLog>>

\* the invocations of a page without the i-th
WithoutRun(runs, i) == SubSeq(runs, 1, i - 1) \o SubSeq(runs, i + 1, Len(runs))

\* the end of handleSubmit with isLoading reset on the answer path only
SubmitSaveBotNoFinally(s, i, ok) ==
  /\ i \in DOMAIN page[s].runs /\ page[s].runs[i] \in {"saveAnswer", "saveError"}
  /\ chatLog' = SaveChatMessage(s, IF page[s].runs[i] = "saveAnswer" THEN "answer" ELSE "error", ok)
  /\ page' = [page EXCEPT ![s] =
                [@ EXCEPT !.isLoading = IF page[s].runs[i] = "saveAnswer" THEN FALSE ELSE @,
                          !.runs = WithoutRun(@, i)]]
  /\ UNCHANGED <<ledger, clock, apiKey, req>>

\* the save of the bot message and the finally block
SubmitSaveBot(s, i, ok) ==
  /\ i \in DOMAIN page[s].runs /\ page[s].runs[i] \in {"saveAnswer", "saveError"}
  /\ chatLog' = SaveChatMessage(s, IF page[s].runs[i] = "saveAnswer" THEN "answer" ELSE "error", ok)
  /\ page' = [page EXCEPT ![s] =
                [@ EXCEPT !.isLoading = FALSE, !.runs = WithoutRun(@, i)]]
  /\ UNCHANGED <<ledger, clock, apiKey, req>>

\* clearChatHistory, confirmed by the user, up to the delete call
ClearAsk(s) ==
  /\ page[s].clear = "idle"
  /\ page' = [page EXCEPT ![s].clear = "delete"]
  /\ UNCHANGED <<ledger, clock, apiKey, req, chatLog>>

\* delete().eq('session_id', sessionId) as the table executes it
DeleteSession(s) ==
  IF "DELETE" \in ChatPolicies THEN OtherSessions(chatLog, s) ELSE chatLog

\* the delete call reaches the table and returns
ClearDelete(s, ok) ==
  /\ page[s].clear = "delete"
  /\ chatLog' = IF ok THEN DeleteSession(s) ELSE chatLog
  /\ page' = [page EXCEPT ![s].clear = "reply", ![s].clearError = ~ok]
  /\ UNCHANGED <<ledger, clock, apiKey, req>>

\* the rest of clearChatHistory: the messages are reset unless the delete
\* returned an error
ClearDone(s) ==
  /\ page[s].clear = "reply"
  /\ page' = [page EXCEPT ![s] =
                IF page[s].clearError THEN [@ EXCEPT !.clear = "idle"]
                ELSE [@ EXCEPT !.clear = "idle", !.messages = <<"greeting">>]]
  /\ UNCHANGED <<ledger, clock, apiKey, req, chatLog>>

\* ---------------------------------------------------------------- run
\* The entry that one add-statement request for ("a", "b") leaves in an empty
\* table at time 0; the request itself (request 0) is over.
FirstRow ==
  LET statementHash == simpleHash(StrA \o StrB)
  IN  [statement |-> StrA, speaker |-> StrB, source_url |-> Undefined,
       statement_hash |-> statementHash, previous_hash |-> GenesisHash,
       block_hash |-> AddBlockHash(statementHash, GenesisHash, 0),
       verification_status |-> "", verification_confidence |-> "",
       writer |-> "add", by |-> 0, tailSeen |-> 0, lastRead |-> 0,
       id |-> 1, created_at |-> 0]

\* The functions start on an empty table, or on one that holds its first entry.
Init ==
  /\ ledger \in {<<>>, <<FirstRow>>}
  /\ clock = 0
  /\ apiKey \in BOOLEAN
  /\ req = [r \in Req |-> IdleReq]
  /\ ChatStart

\* time passes
Tick ==
  /\ clock < MaxClock
  /\ clock' = clock + 1
  /\ UNCHANGED <<ledger, apiKey, req, chat>>

Next ==
  \/ \E r \in Req, body \in Bodies : AddReceive(r, body)
  \/ \E r \in Req, ok \in BOOLEAN : AddReadTail(r, ok)
  \/ \E r \in Req, ok \in BOOLEAN : AddInsert(r, ok)
  \/ \E r \in Req, body \in Bodies : VerifyReceive(r, body)
  \/ \E r \in Req, reply \in OracleReplies : VerifyOracle(r, reply)
  \/ \E r \in Req, ok \in BOOLEAN : VerifyReadTail(r, ok)
  \/ \E r \in Req, ok \in BOOLEAN : VerifyInsert(r, ok)
  \/ \E r \in Req, body \in AskBodies : AskReceive(r, body)
  \/ \E r \in Req, ok \in BOOLEAN : AskFetchAll(r, ok)
  \/ \E r \in Req, kind \in AskReplyKinds : AskSelect(r, kind)
  \/ \E r \in Req, ok \in BOOLEAN, found \in {{}, 1..Len(ledger)} : AskLookup(r, ok, found)
  \/ \E r \in Req, kind \in AskReplyKinds : AskSynthesize(r, kind)
  \/ \E r \in Req, ok \in BOOLEAN, found \in {{}, 1..Len(ledger)} : AskTextSearch(r, ok, found)
  \/ \E r \in Req, ok \in BOOLEAN, found \in {{}, 1..Len(ledger)} : AskKeyword(r, ok, found)
  \/ Tick

Spec == Init /\ [][Next]_vars

\* ------------------------------------------- appends, one at a time
\* The response has been delivered: the slot is ready for another request.
Release(r) ==
  /\ req[r].pc = "done"
  /\ req' = [req EXCEPT ![r] = IdleReq]
  /\ UNCHANGED <<ledger, clock, apiKey, chat>>

\* Append requests that each finish before the next one starts: one slot
\* serves them all.
SeqNext ==
  \/ \E body \in Bodies : AddReceive(1, body)
  \/ \E ok \in BOOLEAN : AddReadTail(1, ok)
  \/ \E ok \in BOOLEAN : AddInsert(1, ok)
  \/ Release(1)
  \/ Tick

SeqSpec == Init /\ [][SeqNext]_vars

\* --------------------------------------- one verification, any reply
\* the texts an object of the completion service may hold under a key
ReplyTexts == {Undefined, EmptyStr, StrA}

\* the verdicts and the confidence levels the prompt asks the service for
VerificationStatuses == {"VERIFIED", "UNVERIFIED", "DISPUTED"}

VerificationConfidences == {"LOW", "MEDIUM", "HIGH"}

\* a reply whose object carries a status and a confidence the prompt does not
\* list
ReplyOutsideEnums ==
  ReplyOf("object", EmptyStr,
          [NoVerification EXCEPT !.status = "MAYBE", !.confidence = "CERTAIN"])

\* The replies of the completion service to a verification: each failure, a
\* content that is no JSON, and the objects over a few values of each key.
VerifyReplies ==
  {ReplyOf(k, EmptyStr, NoVerification) : k \in OracleFailures}
  \cup {ReplyOf("content", Undefined, NoVerification)}
  \cup {ReplyOf("text", c, NoVerification) : c \in {StrNotJson, StrA}}
  \cup {ReplyOutsideEnums}
  \cup {ReplyOf("object", EmptyStr, o) :
          o \in [status : {"", "VERIFIED"}, confidence : {"", "HIGH"},
                 keyFacts : {NoList, <<>>, <<StrA>>}, issues : {NoList, <<StrB>>},
                 context : ReplyTexts, recommendation : {Undefined, StrB},
                 reasoning : {Undefined, StrU}]}

\* One verify-statement request, of either revision of the function.
VerifyNext ==
  \/ \E body \in Bodies : VerifyReceive(1, body)
  \/ \E reply \in VerifyReplies : VerifyOracle(1, reply)
  \/ \E ok \in BOOLEAN : VerifyReadTail(1, ok)
  \/ \E ok \in BOOLEAN : VerifyInsert(1, ok)
  \/ \E body \in VerifyIdBodies : VerifyIdReceive(1, body)
  \/ \E ok \in BOOLEAN : VerifyIdFetch(1, ok)
  \/ \E reply \in VerifyReplies : VerifyIdOracle(1, reply)
  \/ Tick

VerifySpec == Init /\ [][VerifyNext]_vars

\* ------------------------------------- appends of neighbouring texts
\* "ab" and "bb"
StrAB == <<97, 98>>

StrBB == <<98, 98>>

\* Bodies whose statement and speaker share a boundary: the last character of
\* one statement is the first character of one speaker.
HashBodies ==
  [json : {TRUE}, statement : {StrA, StrAB}, speaker : {StrB, StrBB},
   sourceUrl : {Undefined, StrU}]

\* Two add-statement requests for such bodies, at one time.
HashNext ==
  \/ \E r \in Req, body \in HashBodies : AddReceive(r, body)
  \/ \E r \in Req, ok \in BOOLEAN : AddReadTail(r, ok)
  \/ \E r \in Req, ok \in BOOLEAN : AddInsert(r, ok)

HashSpec == Init /\ [][HashNext]_vars

\* ------------------------------------------------ one question
\* The entry that an add-statement request for ("a", "b", "u") leaves at time 1
\* in a table that holds the first entry.
SecondRow ==
  LET statementHash == simpleHash(StrA \o StrB \o StrU)
  IN  [statement |-> StrA, speaker |-> StrB, source_url |-> StrU,
       statement_hash |-> statementHash, previous_hash |-> FirstRow.block_hash,
       block_hash |-> AddBlockHash(statementHash, FirstRow.block_hash, 1),
       verification_status |-> "", verification_confidence |-> "",
       writer |-> "add", by |-> 0, tailSeen |-> 1, lastRead |-> 1,
       id |-> 2, created_at |-> 1]

\* the entries of a table that holds more than a retrieval call returns
TableRows == 6

RECURSIVE TableOf(_)
\* The table after n add-statement requests, one at a time: the first entry,
\* then ("a", "b", "u") at time 1 again and again.
TableOf(n) ==
  IF n = 0 THEN <<>>
  ELSE IF n = 1 THEN <<FirstRow>>
  ELSE LET table == TableOf(n - 1)
           previousHash == table[n - 1].block_hash
       IN  Append(table,
                  [SecondRow EXCEPT !.previous_hash = previousHash,
                                    !.block_hash = AddBlockHash(SecondRow.statement_hash,
                                                                previousHash, 1),
                                    !.tailSeen = n - 1, !.lastRead = n - 1, !.id = n])

\* The question meets a table of no, one or two entries, or one of more
\* entries than a retrieval call returns.
AskInit ==
  /\ ledger \in {<<>>, <<FirstRow>>, <<FirstRow, SecondRow>>, TableOf(TableRows)}
  /\ clock = MaxClock
  /\ apiKey \in BOOLEAN
  /\ req = [r \in Req |-> IdleReq]
  /\ ChatStart

\* One ask-veritas request, of either revision of the function, with any
\* outcome of its store calls and of its calls of the completion service.
AskNext ==
  \/ \E body \in AskBodies : AskReceive(1, body)
  \/ \E ok \in BOOLEAN : AskFetchAll(1, ok)
  \/ \E kind \in AskReplyKinds : AskSelect(1, kind)
  \/ \E ok \in BOOLEAN, ids \in SUBSET (1..Len(ledger) + 1) : AskLookup(1, ok, ids)
  \/ \E kind \in AskReplyKinds : AskSynthesize(1, kind)
  \/ \E ok \in BOOLEAN, found \in SUBSET (1..Len(ledger)) : AskTextSearch(1, ok, found)
  \/ \E ok \in BOOLEAN, found \in SUBSET (1..Len(ledger)) : AskKeyword(1, ok, found)
  \/ \E body \in AskBodies : Ask2Receive(1, body)
  \/ \E ok \in BOOLEAN, found \in SUBSET (1..Len(ledger)) : Ask2TextSearch(1, ok, found)
  \/ \E ok \in BOOLEAN, found \in SUBSET (1..Len(ledger)) : Ask2Keyword(1, ok, found)
  \/ \E kind \in AskReplyKinds : Ask2Synthesize(1, kind)

AskSpec == AskInit /\ [][AskNext]_vars

\* --------------------------------------------------- the chat pages
\* the chat log after each session but the first has saved one user message
OthersLog == [i \in 1..(MaxSessions - 1) |->
                [session_id |-> i + 1, kind |-> "user", message_type |-> "user"]]

\* The page of session 1 starts on a chat log that is empty or holds the rows
\* of the other sessions; the functions are left out.
ChatInit ==
  /\ ledger = <<>>
  /\ clock = 0
  /\ apiKey = TRUE
  /\ req = [r \in Req |-> IdleReq]
  /\ chatLog \in {<<>>, OthersLog}
  /\ page = [s \in Sessions |-> FirstPage]

\* The page of session 1 at work.
ChatNext ==
  \/ \E ok \in BOOLEAN : LoadChatHistory(1, ok)
  \/ \E text \in Inputs : Type(1, text)
  \/ Submit(1)
  \/ \E i \in 1..MaxSubmits, ok \in BOOLEAN : SubmitSaveUser(1, i, ok)
  \/ \E i \in 1..MaxSubmits, answered \in BOOLEAN : SubmitInvoke(1, i, answered)
  \/ \E i \in 1..MaxSubmits, ok \in BOOLEAN : SubmitSaveBot(1, i, ok)
  \/ ClearAsk(1)
  \/ \E ok \in BOOLEAN : ClearDelete(1, ok)
  \/ ClearDone(1)

ChatSpec == ChatInit /\ [][ChatNext]_vars

\* ---------------------------------------------------------- properties
Rows == 1..Len(ledger)

\* the rows whose block_hash is h
RowsWithBlockHash(h) == {i \in Rows : ledger[i].block_hash = h}

RECURSIVE HopsToGenesis(_, _)
\* The number of entries visited from entry i, following previous_hash to the
\* entry with that block_hash, until a previous_hash of "0"; -1 when the walk
\* meets a hash that no entry has or does not end within fuel entries.
HopsToGenesis(i, fuel) ==
  IF fuel = 0 THEN -1
  ELSE IF ledger[i].previous_hash = GenesisHash THEN 1
  ELSE IF RowsWithBlockHash(ledger[i].previous_hash) = {} THEN -1
  ELSE LET j == CHOOSE k \in RowsWithBlockHash(ledger[i].previous_hash) : TRUE
           n == HopsToGenesis(j, fuel - 1)
       IN  IF n < 0 THEN -1 ELSE n + 1

\* C1: after N appends executed one at a time on an empty ledger, the walk
\* from the latest entry along previous_hash reaches "0" after exactly N hops
\* (N being the number of entries the appends wrote).
C1_ChainReachesGenesis ==
  Len(ledger) > 0 => HopsToGenesis(Len(ledger), Len(ledger)) = Len(ledger)

\* C2: every entry that is not a genesis entry has as previous_hash the
\* block_hash of the entry that was the tail when it was inserted, which is the
\* entry right before it.
C2_LinkedToTailAtInsert ==
  \A i \in Rows :
    (i > 1 /\ ledger[i].previous_hash # GenesisHash)
      => ledger[i].previous_hash = ledger[i - 1].block_hash

\* add requests whose insert call was made and which met no store failure
Appended(r) ==
  /\ req[r].op = "add" /\ req[r].pc = "done"
  /\ req[r].writes = 1 /\ ~req[r].storeFailed

\* the rows request r wrote
RowsBy(r) == {i \in Rows : ledger[i].by = r}

\* C3: two appends that read the same tail both insert, whatever the table
\* holds by then: both answer with success, and their two entries carry the
\* same previous_hash.
C3_ForkUndetected ==
  \A r1, r2 \in Req :
    (r1 # r2 /\ Appended(r1) /\ Appended(r2) /\ req[r1].lastRead = req[r2].lastRead)
      => /\ req[r1].status = 200 /\ req[r2].status = 200
         /\ \E i \in RowsBy(r1), j \in RowsBy(r2) :
              i # j /\ ledger[i].previous_hash = ledger[j].previous_hash

C3_Forked ==
  \E r1, r2 \in Req :
    /\ r1 # r2 /\ Appended(r1) /\ Appended(r2)
    /\ req[r1].lastRead = req[r2].lastRead /\ req[r1].lastRead > 0
    /\ req[r1].status = 200 /\ req[r2].status = 200
    /\ \E i \in RowsBy(r1), j \in RowsBy(r2) :
         i # j /\ ledger[i].previous_hash = ledger[j].previous_hash

\* C4: the block_hash of an entry written by add-statement is the fingerprint
\* of its stored statement_hash, its stored previous_hash and its stored
\* timestamp (created_at).
C4_BlockHashRecomputable ==
  \A i \in Rows :
    ledger[i].writer = "add"
      => ledger[i].block_hash =
           AddBlockHash(ledger[i].statement_hash, ledger[i].previous_hash,
                        ledger[i].created_at)

\* C5: an entry has previous_hash "0" only if the table held no entry when its
\* writer read the tail.
C5_GenesisOnlyOnEmpty ==
  \A i \in Rows : ledger[i].previous_hash = GenesisHash => ledger[i].tailSeen = 0

\* add requests whose body decoded and lacks a statement or a speaker
Rejected(r) ==
  /\ req[r].op = "add" /\ req[r].json
  /\ (~Truthy(req[r].statement) \/ ~Truthy(req[r].speaker))

\* C6: an append without statement or speaker answers 400 and makes no store
\* call; an append with both that read an empty table and met no store failure
\* answers with success, and its entry has previous_hash "0".
C6_Validation ==
  \A r \in Req :
    /\ Rejected(r)
         => /\ req[r].pc = "done" /\ req[r].status = 400
            /\ req[r].reads = 0 /\ req[r].writes = 0 /\ RowsBy(r) = {}
    /\ (/\ req[r].op = "add" /\ req[r].json /\ ~Rejected(r)
        /\ req[r].pc = "done" /\ ~req[r].storeFailed /\ req[r].tailSeen = 0)
         => /\ req[r].status = 200
            /\ req[r].rowId \in RowsBy(r)
            /\ ledger[req[r].rowId].previous_hash = GenesisHash

C6_RejectedAndAccepted ==
  \E r1, r2 \in Req :
    /\ Rejected(r1) /\ req[r1].status = 400 /\ req[r1].reads = 0
    /\ req[r2].op = "add" /\ req[r2].pc = "done" /\ req[r2].status = 200
    /\ req[r2].tailSeen = 0 /\ req[r2].rowId \in Rows
    /\ ledger[req[r2].rowId].previous_hash = GenesisHash

\* C7: an append that answers with success has written exactly one entry, and
\* one that answers with an error (400 or 500) has written none.
C7_OneRowIffSuccess ==
  \A r \in Req :
    (req[r].op = "add" /\ req[r].pc = "done")
      => /\ req[r].status \in {200, 400, 500}
         /\ req[r].status = 200 => Cardinality(RowsBy(r)) = 1
         /\ req[r].status # 200 => RowsBy(r) = {}

C7_SuccessAndFailure ==
  \E r1, r2 \in Req :
    /\ req[r1].op = "add" /\ req[r1].pc = "done" /\ req[r1].status = 200
    /\ Cardinality(RowsBy(r1)) = 1
    /\ req[r2].op = "add" /\ req[r2].pc = "done" /\ req[r2].status = 500
    /\ req[r2].writes = 1 /\ RowsBy(r2) = {}

\* the fields of an entry that are fixed once it is written
Written(row) ==
  <<row.statement, row.speaker, row.source_url, row.statement_hash,
    row.previous_hash, row.block_hash>>

\* C8: no step of an append, verify or ask request removes an entry or changes
\* the statement, speaker, source_url, statement_hash, previous_hash or
\* block_hash of an entry already written.
C8_AppendOnly ==
  [][/\ Len(ledger') >= Len(ledger)
     /\ \A i \in Rows : Written(ledger'[i]) = Written(ledger[i])]_vars

C8_WrittenThenServed ==
  \E r1, r2 \in Req :
    /\ Len(ledger) >= 2
    /\ req[r1].op = "verify" /\ req[r1].pc = "done" /\ RowsBy(r1) # {}
    /\ req[r2].op = "ask" /\ req[r2].pc = "done" /\ req[r2].reads >= 1

\* C9: no step of a verify request changes the number of entries.
C9_VerifyKeepsRowCount ==
  [][\A r \in Req :
       (req'[r].op = "verify" /\ req'[r] # req[r]) => Len(ledger') = Len(ledger)]_vars

\* the ordered parts (statement, speaker, sourceUrl or "") as they are hashed
StatementParts(row) == row.statement \o row.speaker \o OrElse(row.source_url, EmptyStr)

\* C10: the statement_hash of every entry, whichever handler wrote it, is the
\* fingerprint of (statement, speaker, sourceUrl or ""), with one fingerprint
\* function for the whole chain.
C10_OneStatementFingerprint ==
  \/ \A i \in Rows : ledger[i].statement_hash = simpleHash(StatementParts(ledger[i]))
  \/ \A i \in Rows : ledger[i].statement_hash = sha256Hex(StatementParts(ledger[i]))

\* C11: no two entries have the same block_hash, whatever the interleaving of
\* the write requests.
C11_BlockHashesDistinct ==
  \A i, j \in Rows : i # j => ledger[i].block_hash # ledger[j].block_hash

\* the timestamps with which the block_hash of entry i is the fingerprint, by
\* the function of the handler that wrote it, of its statement_hash and its
\* previous_hash
HashTimes(i) ==
  {now \in 0..MaxClock :
     ledger[i].block_hash =
       IF ledger[i].writer = "add"
         THEN simpleHash(ledger[i].statement_hash \o ledger[i].previous_hash \o DecOf(now))
         ELSE sha256Hex(ledger[i].statement_hash \o ledger[i].previous_hash \o DecOf(now))}

\* C12: the hashes of an entry are computed from its statement, speaker,
\* sourceUrl, previous_hash and a timestamp, and from no verification field: two
\* entries of one handler that agree on those inputs have the same hashes
\* whatever their verification_status and verification_confidence.
C12_HashesIgnoreVerification ==
  /\ \A i \in Rows :
       /\ ledger[i].statement_hash =
            IF ledger[i].writer = "add"
              THEN simpleHash(StatementParts(ledger[i]))
              ELSE sha256Hex(ledger[i].statement \o ledger[i].speaker)
       /\ HashTimes(i) # {}
  /\ \A i, j \in Rows :
       (/\ ledger[i].writer = ledger[j].writer
        /\ StatementParts(ledger[i]) = StatementParts(ledger[j])
        /\ ledger[i].statement = ledger[j].statement
        /\ ledger[i].previous_hash = ledger[j].previous_hash
        /\ HashTimes(i) \cap HashTimes(j) # {})
         => /\ ledger[i].statement_hash = ledger[j].statement_hash
            /\ ledger[i].block_hash = ledger[j].block_hash

C12_SameHashesTwoVerdicts ==
  \E i, j \in Rows :
    /\ ledger[i].writer = "verify" /\ ledger[j].writer = "verify"
    /\ ledger[i].verification_status # ledger[j].verification_status
    /\ ledger[i].verification_confidence # ledger[j].verification_confidence
    /\ ledger[i].statement = ledger[j].statement
    /\ ledger[i].speaker = ledger[j].speaker
    /\ ledger[i].previous_hash = ledger[j].previous_hash
    /\ ledger[i].statement_hash = ledger[j].statement_hash
    /\ ledger[i].block_hash = ledger[j].block_hash

\* verify requests of either revision that have answered
Verified(r) == req[r].op \in {"verify", "verifyId"} /\ req[r].pc = "done"

\* C13: a verify request whose oracle reply has a well-formed envelope and a
\* content that is no JSON answers with success, and its verification has
\* status UNVERIFIED, confidence LOW, keyFacts [], issues exactly
\* ["AI response parsing failed"] and the raw content as reasoning.
C13_DegradedOnUnparsableContent ==
  \A r \in Req :
    (Verified(r) /\ req[r].oracle.kind = "text")
      => /\ req[r].status = 200
         /\ req[r].verification.status = "UNVERIFIED"
         /\ req[r].verification.confidence = "LOW"
         /\ req[r].verification.keyFacts = <<>>
         /\ req[r].verification.issues = <<StrParsingFailed>>
         /\ req[r].verification.reasoning = req[r].oracle.content

C13_DegradedAnswered ==
  \E r \in Req :
    /\ req[r].op = "verify" /\ req[r].pc = "done" /\ req[r].status = 200
    /\ req[r].oracle.kind = "text" /\ req[r].oracle.content = StrNotJson
    /\ req[r].verification.reasoning = StrNotJson
    /\ req[r].verification.issues = <<StrParsingFailed>>

\* verify requests (statement in the body) whose oracle content was an object
\* with status and confidence and none of the five other keys
StatusAndConfidenceOnly(r) ==
  /\ req[r].op = "verify" /\ req[r].pc = "done" /\ req[r].oracle.kind = "object"
  /\ req[r].oracle.status # "" /\ req[r].oracle.confidence # ""
  /\ req[r].oracle.keyFacts = NoList /\ req[r].oracle.issues = NoList
  /\ req[r].oracle.context = Undefined /\ req[r].oracle.recommendation = Undefined
  /\ req[r].oracle.reasoning = Undefined

\* C14 as stated: such a request returns keyFacts [], issues [], context "",
\* recommendation and reasoning "Not provided", status and confidence unchanged.
C14_DefaultsWithEmptyContext ==
  \A r \in Req :
    StatusAndConfidenceOnly(r)
      => /\ req[r].status = 200
         /\ req[r].verification.keyFacts = <<>> /\ req[r].verification.issues = <<>>
         /\ req[r].verification.context = EmptyStr
         /\ req[r].verification.recommendation = StrNotProvided
         /\ req[r].verification.reasoning = StrNotProvided
         /\ req[r].verification.status = req[r].oracle.status
         /\ req[r].verification.confidence = req[r].oracle.confidence

\* C14, amended: such a request returns keyFacts [], issues [], and
\* "Not provided" for context, recommendation and reasoning alike, status and
\* confidence unchanged.
C14_DefaultsNotProvided ==
  \A r \in Req :
    StatusAndConfidenceOnly(r)
      => /\ req[r].status = 200
         /\ req[r].verification.keyFacts = <<>> /\ req[r].verification.issues = <<>>
         /\ req[r].verification.context = StrNotProvided
         /\ req[r].verification.recommendation = StrNotProvided
         /\ req[r].verification.reasoning = StrNotProvided
         /\ req[r].verification.status = req[r].oracle.status
         /\ req[r].verification.confidence = req[r].oracle.confidence

C14_DefaultsFilled ==
  \E r \in Req :
    /\ StatusAndConfidenceOnly(r) /\ req[r].status = 200
    /\ req[r].oracle.status = "VERIFIED" /\ req[r].oracle.confidence = "HIGH"
    /\ req[r].verification.status = "VERIFIED"
    /\ req[r].verification.context = StrNotProvided
    /\ req[r].verification.keyFacts = <<>>

\* C15: a verify request whose oracle call fails (transport error, non-success
\* status, body without choices[0].message.content) answers with an error,
\* carries no verification and has written nothing.
C15_OracleFailureIsAnError ==
  \A r \in Req :
    (Verified(r) /\ req[r].oracle.kind \in OracleFailures)
      => /\ req[r].status \in {500, 502}
         /\ req[r].verification = NoVerification
         /\ req[r].writes = 0 /\ RowsBy(r) = {}

\* C16: a verify request that has obtained a verification (parsed or
\* degraded) keeps it through the tail read and the insert, and answers with
\* success carrying it, whether those store calls fail or not.
C16_PersistFailureSwallowed ==
  \A r \in Req :
    (req[r].op = "verify" /\ req[r].oracle.kind \in {"text", "object"})
      => /\ req[r].verification = verificationOf(req[r].oracle)
         /\ req[r].pc \in {"tail", "insert", "done"}
         /\ req[r].pc = "done" => req[r].status = 200

C16_AnsweredAfterFailedInsert ==
  \E r \in Req :
    /\ req[r].op = "verify" /\ req[r].pc = "done" /\ req[r].status = 200
    /\ req[r].writes = 1 /\ req[r].storeFailed /\ RowsBy(r) = {}
    /\ req[r].oracle.kind = "object" /\ req[r].verification.status = "VERIFIED"

\* ask requests of either revision that have answered
Asked(r) == req[r].op \in {"ask", "ask2"} /\ req[r].pc = "done"

\* C17: an ask request with a non-empty query against an empty table, none of
\* whose store calls failed, answers with success, no sources, confidence
\* "low" and a fixed no-results text, whether the oracle is configured or not.
C17_EmptyLedgerAnswersLow ==
  \A r \in Req :
    (Asked(r) /\ req[r].json /\ Truthy(req[r].query)
     /\ Len(ledger) = 0 /\ ~req[r].storeFailed)
      => /\ req[r].status = 200
         /\ req[r].sources = {} /\ req[r].confidence = "low"
         /\ req[r].answer \in {"empty", "none"}

\* C18: an ask request that made at least one retrieval call, and none of
\* whose retrieval calls returned an entry, answers with success, the text
\* for no relevant statement, no sources and confidence "low".
C18_NoCandidateAnswersLow ==
  \A r \in Req :
    (Asked(r) /\ req[r].retrievals > 0 /\ req[r].yielded = {})
      => /\ req[r].status = 200 /\ req[r].answer = "none"
         /\ req[r].sources = {} /\ req[r].confidence = "low"

C18_SelectedIdsMatchNothing ==
  \E r \in Req :
    /\ Asked(r) /\ req[r].op = "ask" /\ req[r].selected = "object"
    /\ Len(ledger) > 0 /\ req[r].retrievals = 1 /\ req[r].yielded = {}
    /\ ~req[r].storeFailed
    /\ req[r].status = 200 /\ req[r].answer = "none" /\ req[r].confidence = "low"

\* C19: an ask request one of whose oracle calls (selection or answer) failed
\* answers with success and confidence "medium" or "low".
C19_OracleFailureDowngrades ==
  \A r \in Req :
    (Asked(r) /\ (req[r].selected \in OracleFailures
                  \/ req[r].synthesized \in OracleFailures))
      => req[r].status = 200 /\ req[r].confidence \in {"medium", "low"}

\* C20: an ask request that went on with a non-empty set of candidates
\* answers with confidence "high" when the answer call succeeded, and with
\* success, confidence "medium", a summary drawn from the table and the
\* candidates as sources when an oracle call failed or no key is configured.
C20_HighOrMedium ==
  \A r \in Req :
    (Asked(r) /\ req[r].candidates # {})
      => /\ req[r].synthesized \in {"text", "object"}
              => req[r].status = 200 /\ req[r].confidence = "high"
         /\ (\/ ~apiKey
             \/ req[r].selected \in OracleFailures
             \/ req[r].synthesized \in OracleFailures)
              => /\ req[r].status = 200 /\ req[r].confidence = "medium"
                 /\ req[r].answer \in {"count", "details"}
                 /\ req[r].sources = req[r].candidates

\* ask requests whose word match has run: it is the second retrieval call of
\* a request, after a full-text search
KeywordRan(r) == req[r].op \in {"ask", "ask2"} /\ req[r].retrievals = 2

\* C21: the word match runs only after a full-text search that returned an
\* error, and when it finds entries, those entries are the candidates and the
\* sources of the response.
C21_KeywordResultsAreSources ==
  \A r \in Req :
    /\ (req[r].op \in {"ask", "ask2"} /\ req[r].pc = "keyword")
         => req[r].storeFailed /\ req[r].retrievals = 1 /\ req[r].yielded = {}
    /\ (KeywordRan(r) /\ req[r].pc = "done" /\ req[r].yielded # {})
         => /\ req[r].status = 200
            /\ req[r].candidates = req[r].yielded
            /\ req[r].sources = req[r].yielded

\* requests whose body is no JSON or lacks a field the handler requires
Undecodable(r) ==
  /\ req[r].op \in {"add", "verify", "ask"}
  /\ \/ ~req[r].json
     \/ req[r].op = "add" /\ (~Truthy(req[r].statement) \/ ~Truthy(req[r].speaker))
     \/ req[r].op = "verify" /\ ~Truthy(req[r].statement)
     \/ req[r].op = "ask" /\ ~Truthy(req[r].query)

\* C22: an append, verify or ask request whose body is no JSON or lacks a
\* required field answers 400 and makes no store call and no oracle call.
C22_UndecodableBodyIs400 ==
  \A r \in Req :
    Undecodable(r)
      => /\ req[r].pc = "done" /\ req[r].status = 400
         /\ req[r].reads = 0 /\ req[r].writes = 0 /\ RowsBy(r) = {}
         /\ req[r].oracle = NoReply
         /\ req[r].selected = "none" /\ req[r].synthesized = "none"

\* the store calls and the oracle calls a request has made
CallsMade(r) == req[r].reads + req[r].writes + req[r].calls

\* C23: no request repeats an oracle call: an append makes none, a verify at
\* most one, an ask at most two (one selection call, then one answer call), and
\* no request makes more than four store and oracle calls in all.
C23_NoOracleRetry ==
  \A r \in Req :
    /\ req[r].op = "add" => req[r].calls = 0
    /\ req[r].op = "verify" => req[r].calls <= 1
    /\ req[r].op = "ask"
         => /\ req[r].calls <= 2
            /\ req[r].calls = 2 => req[r].selected # "none" /\ req[r].synthesized # "none"
    /\ CallsMade(r) <= 4
    /\ req[r].pc = "idle" => CallsMade(r) = 0

C23_TwoCallsAndOne ==
  \E r1, r2 \in Req :
    /\ req[r1].op = "ask" /\ req[r1].pc = "done" /\ req[r1].calls = 2
    /\ req[r1].synthesized \in OracleFailures
    /\ req[r2].op = "verify" /\ req[r2].pc = "done" /\ req[r2].calls = 1
    /\ req[r2].oracle.kind \in OracleFailures

\* C24: when clearChatHistory of session s finishes without having reported an
\* error, the chat log holds no row of session s; and no step of
\* clearChatHistory changes the rows of the other sessions.
C24_ClearedSessionHasNoRows ==
  [][\A s \in Sessions :
       /\ (page[s].clear = "reply" /\ page'[s].clear = "idle" /\ ~page[s].clearError)
            => RowsOfSession(chatLog', s) = {}
       /\ page[s].clear # page'[s].clear
            => OtherSessions(chatLog', s) = OtherSessions(chatLog, s)]_vars

\* C25: an ask response has confidence "high" only if the answer call
\* returned a well-formed envelope with a non-empty answer for a non-empty set
\* of retrieved entries, and its sources are then exactly those entries; a
\* response without sources never has confidence "high".
C25_HighOnlyWithAnswerAndSources ==
  \A r \in Req :
    (Asked(r) /\ req[r].status = 200)
      => /\ req[r].confidence = "high"
              => /\ req[r].synthesized \in {"text", "object"}
                 /\ req[r].answer = "oracle"
                 /\ req[r].candidates # {}
                 /\ req[r].sources = req[r].candidates
         /\ req[r].sources = {} => req[r].confidence # "high"

\* C26: an ask request whose selection call failed, or whose selection reply
\* is not an array of ids, goes on with the full-text search (and the word
\* match), makes no answer call, and answers with that search's success
\* response.
C26_SelectionFailureFallsBack ==
  \A r \in Req :
    (req[r].op = "ask" /\ req[r].selected \in OracleFailures \cup {"text"})
      => /\ req[r].pc \in {"search", "keyword", "done"}
         /\ req[r].pc = "done"
              => /\ req[r].status = 200
                 /\ req[r].retrievals >= 1 /\ req[r].synthesized = "none"
                 /\ req[r].answer \in {"count", "none"}
                 /\ req[r].sources = req[r].candidates

\* C27: the verification of every answered verify request, and the
\* verification_status and verification_confidence of every entry a verify
\* request wrote, has a status among VERIFIED, UNVERIFIED, DISPUTED and a
\* confidence among LOW, MEDIUM, HIGH, whatever content the oracle returned.
C27_VerdictWithinEnums ==
  /\ \A r \in Req :
       (req[r].op = "verify" /\ req[r].pc = "done" /\ req[r].status = 200)
         => /\ req[r].verification.status \in VerificationStatuses
            /\ req[r].verification.confidence \in VerificationConfidences
  /\ \A i \in 1..Len(ledger) :
       ledger[i].verification_status # ""
         => /\ ledger[i].verification_status \in VerificationStatuses
            /\ ledger[i].verification_confidence \in VerificationConfidences

\* C28: an answered ask request lists at most 5 sources, and each of them is
\* an entry of the table, whatever ids the selection reply held.
C28_SourcesAreFewAndStored ==
  \A r \in Req :
    (Asked(r) /\ req[r].status = 200)
      => /\ Cardinality(req[r].sources) <= SourceLimit
         /\ req[r].sources \subseteq {ledger[i].id : i \in Rows}

\* an answer with five sources out of a table of more entries, after a
\* selection reply whose ids matched more entries than that
C28_FiveOfMore ==
  \E r \in Req :
    /\ Asked(r) /\ req[r].op = "ask" /\ req[r].status = 200
    /\ req[r].selected = "object" /\ req[r].retrievals = 1
    /\ Len(ledger) > SourceLimit
    /\ Cardinality(req[r].sources) = SourceLimit

\* add requests that have taken the fingerprint of their statement
Hashed(r) == req[r].op = "add" /\ req[r].statementHash # EmptyStr

\* C29: two append requests whose (statement, speaker, sourceUrl) triples
\* differ never take the fingerprint of the same input string.
C29_HashInputInjective ==
  \A r1, r2 \in Req :
    (/\ Hashed(r1) /\ Hashed(r2)
     /\ <<req[r1].statement, req[r1].speaker, req[r1].sourceUrl>>
          # <<req[r2].statement, req[r2].speaker, req[r2].sourceUrl>>)
      => AddHashInput(req[r1]) # AddHashInput(req[r2])

\* the invocations of handleSubmit of session s that have not yet appended
\* their bot message
AwaitingAnswer(s) ==
  {i \in DOMAIN page[s].runs : page[s].runs[i] \in {"saveUser", "invoke"}}

\* C30: a page has at most one handleSubmit in flight, and isLoading is true
\* exactly while it is; every accepted submit has appended one user message,
\* and one bot message (the answer or the fixed error message) once the call
\* of ask-veritas has returned, never before its user message; when no
\* handleSubmit is in flight every accepted submit has both its messages and
\* isLoading is false, whatever the call and the saves returned.
C30_OneAnswerPerSubmit ==
  \A s \in Sessions :
    /\ Len(page[s].runs) <= 1
    /\ page[s].isLoading <=> page[s].runs # <<>>
    /\ page[s].userAppends = page[s].accepted
    /\ page[s].botAppends = page[s].accepted - Cardinality(AwaitingAnswer(s))
    /\ page[s].runs = <<>>
         => ~page[s].isLoading /\ page[s].botAppends = page[s].userAppends

\* two submits were accepted and answered, one by the answer and one by the
\* error message, a submit was ignored, and nothing is in flight
C30_AnsweredAndFailed ==
  \E s \in Sessions :
    /\ page[s].accepted = 2 /\ page[s].ignored
    /\ page[s].runs = <<>> /\ ~page[s].isLoading
    /\ page[s].messages = <<"greeting", "user", "error", "user", "answer">>
    /\ RowsOfSession(chatLog, s) = {}

====
